---- MODULE Spec2Model ----
(***************************************************************************)
(* Model of datahub/cli/cli_utils.py: configuration resolution (override   *)
(* map, environment, ~/.datahubenv), session construction, and the REST    *)
(* helpers built on top of them.                                           *)
(*                                                                         *)
(* Python str values are sequences of one-character strings, so that       *)
(* strip(), lower(), startswith(), concatenation and percent-encoding are  *)
(* computed as the code computes them.  Python None is the value None      *)
(* below; it is a one-element sequence whose element is not a single       *)
(* character, so it is different from every str.                           *)
(***************************************************************************)
EXTENDS Integers, Sequences, FiniteSets, TLC

VARIABLES environ, config_file, config_override, last_override, requests, call

vars == <<environ, config_file, config_override, last_override, requests, call>>

-----------------------------------------------------------------------------
(* Python values *)

None == <<"None">>

EmptyStr == <<>>

Whitespace == {" ", "\t", "\n"}

Upper == <<"A","B","C","D","E","F","G","H","I","J","K","L","M",
           "N","O","P","Q","R","S","T","U","V","W","X","Y","Z">>

Lower == <<"a","b","c","d","e","f","g","h","i","j","k","l","m",
           "n","o","p","q","r","s","t","u","v","w","x","y","z">>

lower_char(c) ==
    IF \E i \in 1..Len(Upper) : Upper[i] = c
    THEN Lower[CHOOSE i \in 1..Len(Upper) : Upper[i] = c]
    ELSE c

\* str.lower()
lower(s) == [i \in 1..Len(s) |-> lower_char(s[i])]

\* str.strip()
strip(s) ==
    LET keep == {i \in 1..Len(s) : s[i] \notin Whitespace}
    IN  IF keep = {} THEN EmptyStr
        ELSE LET lo == CHOOSE i \in keep : \A j \in keep : i <= j
                 hi == CHOOSE i \in keep : \A j \in keep : j <= i
             IN  SubSeq(s, lo, hi)

\* str.startswith(prefix)
startswith(s, prefix) ==
    /\ Len(s) >= Len(prefix)
    /\ SubSeq(s, 1, Len(prefix)) = prefix

\* str(x) as used by an f-string: None is rendered as the text "None"
format_value(x) == IF x = None THEN <<"N","o","n","e">> ELSE x

\* truthiness of an Optional[str]
truthy(x) == x # None /\ x # EmptyStr

\* ",".join(ls)
RECURSIVE join_comma(_)
join_comma(ls) ==
    IF Len(ls) = 0 THEN EmptyStr
    ELSE IF Len(ls) = 1 THEN ls[1]
    ELSE ls[1] \o <<",">> \o join_comma(Tail(ls))

-----------------------------------------------------------------------------
(* Module constants *)

DEFAULT_GMS_HOST ==
    <<"h","t","t","p",":","/","/","l","o","c","a","l","h","o","s","t",":","8","0","8","0">>

ENV_SKIP_CONFIG == "DATAHUB_SKIP_CONFIG"
ENV_METADATA_HOST_URL == "DATAHUB_GMS_URL"
ENV_METADATA_HOST == "DATAHUB_GMS_HOST"
ENV_METADATA_PORT == "DATAHUB_GMS_PORT"
ENV_METADATA_PROTOCOL == "DATAHUB_GMS_PROTOCOL"
ENV_METADATA_TOKEN == "DATAHUB_GMS_TOKEN"

EnvKeys == {ENV_SKIP_CONFIG, ENV_METADATA_HOST_URL, ENV_METADATA_HOST,
            ENV_METADATA_PORT, ENV_METADATA_PROTOCOL, ENV_METADATA_TOKEN}

\* os.environ.get(key)
environ_get(env, key) == env[key]

\* dict.get(key) on the override map
override_get(ov, key) == IF key \in DOMAIN ov THEN ov[key] ELSE None

-----------------------------------------------------------------------------
(* The persisted configuration file ~/.datahubenv.  kind is "absent",      *)
(* "valid" ({gms: {server, token}}), "malformed" (not YAML) or "invalid"   *)
(* (YAML that DatahubConfig does not validate).                            *)

FileAbsent == [kind |-> "absent", server |-> None, token |-> None]
FileMalformed == [kind |-> "malformed", server |-> None, token |-> None]
FileInvalid == [kind |-> "invalid", server |-> None, token |-> None]
FileValid(server, token) == [kind |-> "valid", server |-> server, token |-> token]

get_boolean_env_variable(env, key, default) ==
    LET value == environ_get(env, key)
    IN  IF value = None THEN default
        ELSE IF lower(value) \in {<<"t","r","u","e">>, <<"1">>} THEN TRUE
        ELSE FALSE

should_skip_config(env) == get_boolean_env_variable(env, ENV_SKIP_CONFIG, FALSE)

\* write_gms_config(host, token): the gms section is replaced whatever the
\* previous file held (a failure to read the previous file is ignored)
write_gms_config(host, token, file) == FileValid(host, token)

\* ensure_datahub_config(): the file after the call
ensure_datahub_config(file) ==
    IF file.kind = "absent" THEN write_gms_config(DEFAULT_GMS_HOST, None, file)
    ELSE file

\* get_details_from_config(): [exc, host, token]
get_details_from_config(file) ==
    CASE file.kind = "valid" ->
            [exc |-> "none", host |-> file.server, token |-> file.token]
      [] file.kind = "invalid" ->
            [exc |-> "SystemExit", host |-> None, token |-> None]
      [] file.kind = "malformed" ->
            [exc |-> "AssertionError", host |-> None, token |-> None]
      [] OTHER ->
            [exc |-> "FileNotFoundError", host |-> None, token |-> None]

\* get_details_from_env preferring the full URL to the synthesized one
get_details_from_env_url_first(env) ==
    LET host == environ_get(env, ENV_METADATA_HOST)
        port == environ_get(env, ENV_METADATA_PORT)
        token == environ_get(env, ENV_METADATA_TOKEN)
        protocol == IF environ_get(env, ENV_METADATA_PROTOCOL) = None
                    THEN <<"h","t","t","p">>
                    ELSE environ_get(env, ENV_METADATA_PROTOCOL)
        url == environ_get(env, ENV_METADATA_HOST_URL)
    IN  IF truthy(url) THEN <<url, token>>
        ELSE IF port # None
        THEN <<format_value(protocol) \o <<":","/","/">> \o format_value(host)
                 \o <<":">> \o format_value(port), token>>
        ELSE <<host, token>>

get_details_from_env(env) ==
    LET host == environ_get(env, ENV_METADATA_HOST)
        port == environ_get(env, ENV_METADATA_PORT)
        token == environ_get(env, ENV_METADATA_TOKEN)
        protocol == IF environ_get(env, ENV_METADATA_PROTOCOL) = None
                    THEN <<"h","t","t","p">>
                    ELSE environ_get(env, ENV_METADATA_PROTOCOL)
        url == environ_get(env, ENV_METADATA_HOST_URL)
    IN  IF port # None
        THEN <<format_value(protocol) \o <<":","/","/">> \o format_value(host)
                 \o <<":">> \o format_value(port), token>>
        ELSE <<IF truthy(url) THEN url ELSE host, token>>

\* first_non_null without the blank test: the first element that is not None
RECURSIVE first_non_null_keeps_blank(_)
first_non_null_keeps_blank(ls) ==
    IF Len(ls) = 0 THEN None
    ELSE IF Head(ls) # None THEN Head(ls)
    ELSE first_non_null_keeps_blank(Tail(ls))

RECURSIVE first_non_null(_)
first_non_null(ls) ==
    IF Len(ls) = 0 THEN None
    ELSE IF Head(ls) # None /\ strip(Head(ls)) # EmptyStr THEN Head(ls)
    ELSE first_non_null(Tail(ls))

\* get_url_and_token(): [exc, host, token, file], file being the
\* configuration file after the call
get_url_and_token(env, file, ov) ==
    LET e == get_details_from_env(env)
        gms_host_env == e[1]
        gms_token_env == e[2]
    IN  IF DOMAIN ov # {}
        THEN [exc |-> "none", host |-> override_get(ov, ENV_METADATA_HOST_URL),
              token |-> override_get(ov, ENV_METADATA_TOKEN), file |-> file]
        ELSE IF should_skip_config(env)
        THEN [exc |-> "none", host |-> gms_host_env, token |-> gms_token_env,
              file |-> file]
        ELSE LET f == ensure_datahub_config(file)
                 c == get_details_from_config(f)
             IN  IF c.exc # "none"
                 THEN [exc |-> c.exc, host |-> None, token |-> None, file |-> f]
                 ELSE [exc |-> "none",
                       host |-> first_non_null(<<gms_host_env, c.host>>),
                       token |-> first_non_null(<<gms_token_env, c.token>>),
                       file |-> f]

\* set_env_variables_override_config(url, token): the override map after
set_env_variables_override_config(url, token, ov) ==
    LET withUrl == (ENV_METADATA_HOST_URL :> url) @@ ov
    IN  IF token # None THEN (ENV_METADATA_TOKEN :> token) @@ withUrl
        ELSE withUrl

-----------------------------------------------------------------------------
(* Sessions.  A requests.Session is the pair <<"Session", headers>> of its  *)
(* default headers.  The tokens of the model hold no "{...}" placeholder,  *)
(* on which str.format over the environment leaves the token unchanged.    *)

Bearer == <<"B","e","a","r","e","r"," ">>

Session(headers) == <<"Session", headers>>

BaseHeaders == [protocol_version |-> <<"2",".","0",".","0">>,
                content_type |-> <<"a","p","p","l","i","c","a","t","i","o","n","/","j","s","o","n">>,
                authorization |-> None]

\* get_session_and_host testing the host for None only
get_session_and_host_none_only(env, file, ov) ==
    LET with_details(r) ==
            IF r.exc # "none"
            THEN [exc |-> r.exc, session |-> None, host |-> None, file |-> r.file]
            ELSE IF r.host = None
            THEN [exc |-> "none", session |-> None, host |-> None, file |-> r.file]
            ELSE [exc |-> "none",
                  session |-> IF r.token # None /\ Len(r.token) > 0
                              THEN Session([BaseHeaders EXCEPT
                                              !.authorization = Bearer \o r.token])
                              ELSE Session(BaseHeaders),
                  host |-> r.host, file |-> r.file]
    IN  with_details(get_url_and_token(env, file, ov))

\* get_session_and_host(): [exc, session, host, file]
get_session_and_host(env, file, ov) ==
    LET with_details(r) ==
            IF r.exc # "none"
            THEN [exc |-> r.exc, session |-> None, host |-> None, file |-> r.file]
            ELSE IF r.host = None \/ strip(r.host) = EmptyStr
            THEN [exc |-> "none", session |-> None, host |-> None, file |-> r.file]
            ELSE [exc |-> "none",
                  session |-> IF r.token # None /\ Len(r.token) > 0
                              THEN Session([BaseHeaders EXCEPT
                                              !.authorization = Bearer \o r.token])
                              ELSE Session(BaseHeaders),
                  host |-> r.host, file |-> r.file]
    IN  with_details(get_url_and_token(env, file, ov))

-----------------------------------------------------------------------------
(* Inputs *)

STR_gms == <<"g","m","s">>
STR_80 == <<"8","0">>
STR_https == <<"h","t","t","p","s">>
URL_env == <<"h","t","t","p",":","/","/","e">>
URL_conf == <<"h","t","t","p",":","/","/","c">>
URL_over == <<"h","t","t","p",":","/","/","o">>
TOKEN_env == <<"e","t">>
TOKEN_conf == <<"c","t">>
TOKEN_over == <<"o","t">>
Blank == <<" ">>

OverrideUrls == {URL_over, EmptyStr}
OverrideTokens == {None, TOKEN_over}

ConfigHosts == {URL_conf, Blank}
ConfigTokens == {None, EmptyStr, TOKEN_conf}

EnvOf(host, port, protocol, url, token, skip) ==
    (ENV_METADATA_HOST :> host) @@ (ENV_METADATA_PORT :> port)
    @@ (ENV_METADATA_PROTOCOL :> protocol) @@ (ENV_METADATA_HOST_URL :> url)
    @@ (ENV_METADATA_TOKEN :> token) @@ (ENV_SKIP_CONFIG :> skip)

\* control is in the caller: no operation of the module is running
NoCall == [op |-> "none", pc |-> "idle"]

\* The configuration specification starts from every combination of the
\* environment variables and of the states of the configuration file.
InitConfig ==
    /\ environ \in {EnvOf(h, p, pr, u, t, s) :
                      h \in {None, STR_gms}, p \in {None, STR_80},
                      pr \in {None, STR_https}, u \in {None, EmptyStr, URL_env},
                      t \in {None, Blank, TOKEN_env},
                      s \in {None, <<"T","R","U","E">>, <<"0">>}}
    /\ config_file \in {FileAbsent, FileMalformed, FileInvalid}
                       \cup {FileValid(h, t) : h \in ConfigHosts, t \in ConfigTokens}
    /\ config_override = <<>>
    /\ last_override = None
    /\ requests = <<>>
    /\ call = NoCall

\* The whole module starts from fewer configurations: the environment alone
\* (skip-config flag set) with the URL unset, blank or set, and the file
\* alone, absent, with a blank server or with a server and a token.
InitConfigurations ==
    {<<EnvOf(None, None, None, u, t, <<"1">>), FileAbsent>> :
        u \in {None, Blank, URL_env}, t \in {None, TOKEN_env}}
    \cup {<<EnvOf(None, None, None, None, None, None), f>> :
            f \in {FileAbsent, FileValid(Blank, EmptyStr), FileValid(URL_conf, TOKEN_conf)}}

Init ==
    /\ \E c \in InitConfigurations : environ = c[1] /\ config_file = c[2]
    /\ config_override = <<>>
    /\ last_override = None
    /\ requests = <<>>
    /\ call = NoCall

-----------------------------------------------------------------------------
(* Configuration operations.  The module is single-threaded: an operation  *)
(* starts when control is in the caller (Idle), and its outcome stays in   *)
(* call until the caller drops it (Discard).                               *)

Idle == call.op = "none"

\* the caller is done with the result, the exception or the generator
Discard ==
    /\ ~Idle
    /\ call' = NoCall
    /\ requests' = <<>>
    /\ UNCHANGED <<environ, config_file, config_override, last_override>>

SetEnvVariablesOverrideConfig ==
    /\ Idle
    /\ \E url \in OverrideUrls, token \in OverrideTokens :
               /\ config_override' = set_env_variables_override_config(url, token, config_override)
               /\ last_override' = <<url, token>>
               /\ call' = [op |-> "set_env_variables_override_config", pc |-> "returned",
                           args |-> <<url, token>>]
               /\ requests' = <<>>
               /\ UNCHANGED <<environ, config_file>>

WriteGmsConfig ==
    /\ Idle
    /\ \E host \in ConfigHosts, token \in ConfigTokens :
               /\ config_file' = write_gms_config(host, token, config_file)
               /\ call' = [op |-> "write_gms_config", pc |-> "returned", args |-> <<host, token>>]
               /\ requests' = <<>>
               /\ UNCHANGED <<environ, config_override, last_override>>

GetDetailsFromEnv ==
    /\ Idle
    /\ call' = [op |-> "get_details_from_env", pc |-> "returned",
                result |-> get_details_from_env(environ)]
    /\ requests' = <<>>
    /\ UNCHANGED <<environ, config_file, config_override, last_override>>

GetUrlAndToken ==
    /\ Idle
    /\ LET r == get_url_and_token(environ, config_file, config_override)
           IN  /\ call' = [op |-> "get_url_and_token",
                           pc |-> IF r.exc = "none" THEN "returned" ELSE "raised",
                           exc |-> r.exc,
                           result |-> <<r.host, r.token>>,
                           file_before |-> config_file]
               /\ config_file' = r.file
               /\ requests' = <<>>
               /\ UNCHANGED <<environ, config_override, last_override>>

GetSessionAndHost ==
    /\ Idle
    /\ LET sh == get_session_and_host(environ, config_file, config_override)
           IN  /\ call' = [op |-> "get_session_and_host",
                           pc |-> IF sh.exc = "none" THEN "returned" ELSE "raised",
                           exc |-> sh.exc,
                           result |-> <<sh.session, sh.host>>,
                           file_before |-> config_file]
               /\ config_file' = sh.file
               /\ requests' = <<>>
               /\ UNCHANGED <<environ, config_override, last_override>>

NextConfig ==
    \/ SetEnvVariablesOverrideConfig
    \/ WriteGmsConfig
    \/ GetDetailsFromEnv
    \/ GetUrlAndToken
    \/ GetSessionAndHost
    \/ Discard

SpecConfig == InitConfig /\ [][NextConfig]_vars

-----------------------------------------------------------------------------
(* HTTP.  A request issued through a session is recorded in requests, the  *)
(* requests of the current call.  The server's answer is chosen by the     *)
(* environment: a transport error, or a status with a body.                *)

HTTP_OK == 200

Statuses == {HTTP_OK, 302, 500}

NoJson == [none |-> TRUE]

\* no response: the transport raised (requests.ConnectionError)
TransportError == [kind |-> "error", status |-> 0, content |-> FALSE, json |-> NoJson]

\* a response: status_code, whether _content is non-empty, the parsed body
HttpResponse(status, content, json) ==
    [kind |-> "http", status |-> status, content |-> content, json |-> json]

Request(method, url, host, session, payload) ==
    [method |-> method, url |-> url, host |-> host, session |-> session,
     payload |-> payload]

NoPayload == [none |-> TRUE]

\* Response.raise_for_status() raises HTTPError
raises_for_status(status) == status >= 400 /\ status < 600

\* `cached_session_host or get_session_and_host()`
session_and_host(cached, env, file, ov) ==
    IF cached # None
    THEN [exc |-> "none", session |-> cached[1], host |-> cached[2], file |-> file]
    ELSE get_session_and_host(env, file, ov)

\* `gms_host + path`: [exc, value]
concat(host, path) ==
    IF host = None THEN [exc |-> "TypeError", value |-> None]
    ELSE [exc |-> "none", value |-> host \o path]

\* session.post(gms_host + path, payload) of the helpers that post a payload:
\* [exc, requests]
post_payload(sh, path, payload_obj) ==
    IF sh.exc # "none" THEN [exc |-> sh.exc, requests |-> <<>>]
    ELSE LET url == concat(sh.host, path)
         IN  IF url.exc # "none" THEN [exc |-> url.exc, requests |-> <<>>]
             ELSE IF sh.session = None
             THEN [exc |-> "AttributeError", requests |-> <<>>]
             ELSE [exc |-> "none",
                   requests |-> <<Request("POST", url.value, sh.host, sh.session,
                                          payload_obj)>>]

-----------------------------------------------------------------------------
(* get_urns_by_filter: the search filter *)

STR_dataset == <<"d","a","t","a","s","e","t">>
STR_dataflow == <<"d","a","t","a","f","l","o","w">>
STR_datajob == <<"d","a","t","a","j","o","b">>
STR_container == <<"c","o","n","t","a","i","n","e","r">>
STR_chart == <<"c","h","a","r","t">>
STR_dashboard == <<"d","a","s","h","b","o","a","r","d">>
STR_platform_prefix ==
    <<"u","r","n",":","l","i",":","d","a","t","a","P","l","a","t","f","o","r","m",":">>
STR_true == <<"t","r","u","e">>
STR_star == <<"*">>
ENDPOINT_search ==
    <<"/","e","n","t","i","t","i","e","s","?","a","c","t","i","o","n","=","s","e","a","r","c","h">>

SEARCH_COUNT == 10000

Criterion(field, value) == [field |-> field, value |-> value, condition |-> "EQUAL"]

OriginCriterion(env, entity_type_lower) ==
    IF truthy(env) /\ entity_type_lower # STR_container
    THEN <<Criterion("origin", env)>> ELSE <<>>

\* `and` binds tighter than `or`: the platform test guards "dataset" only
PlatformCriterion(platform, entity_type_lower) ==
    IF \/ (platform # None /\ entity_type_lower = STR_dataset)
       \/ entity_type_lower = STR_dataflow
       \/ entity_type_lower = STR_datajob
       \/ entity_type_lower = STR_container
    THEN <<Criterion("platform", STR_platform_prefix \o format_value(platform))>>
    ELSE <<>>

ToolCriterion(platform, entity_type_lower) ==
    IF platform # None /\ entity_type_lower \in {STR_chart, STR_dashboard}
    THEN <<Criterion("tool", platform)>> ELSE <<>>

RemovedCriterion(include_removed, only_soft_deleted) ==
    IF only_soft_deleted THEN <<Criterion("removed", STR_true)>>
    ELSE IF include_removed THEN <<Criterion("removed", EmptyStr)>>
    ELSE <<>>

\* get_urns_by_filter_body comparing the entity type as given, not lower-cased
get_urns_by_filter_body_as_given(a) ==
    LET filter_criteria ==
            OriginCriterion(a.env, a.entity_type)
            \o PlatformCriterion(a.platform, a.entity_type)
            \o ToolCriterion(a.platform, a.entity_type)
            \o RemovedCriterion(a.include_removed, a.only_soft_deleted)
    IN  [input |-> a.search_query, entity |-> a.entity_type, start |-> 0,
         count |-> SEARCH_COUNT,
         filter |-> [or |-> <<[and |-> filter_criteria]>>]]

\* the search_body of get_urns_by_filter; a are the call's arguments
get_urns_by_filter_body(a) ==
    LET entity_type_lower == lower(a.entity_type)
        filter_criteria ==
            OriginCriterion(a.env, entity_type_lower)
            \o PlatformCriterion(a.platform, entity_type_lower)
            \o ToolCriterion(a.platform, entity_type_lower)
            \o RemovedCriterion(a.include_removed, a.only_soft_deleted)
    IN  [input |-> a.search_query, entity |-> a.entity_type, start |-> 0,
         count |-> SEARCH_COUNT,
         filter |-> [or |-> <<[and |-> filter_criteria]>>]]

-----------------------------------------------------------------------------
(* Lazy query operations.  Each is a Python generator: calling it only     *)
(* creates the generator (pc "created"); the body runs when the caller     *)
(* asks for the next element, up to the next yield (pc "suspended"), the   *)
(* end (pc "done") or an exception (pc "raised").                          *)

MaxEntities == 2

Digits == <<"0","1","2","3","4","5","6","7","8","9">>

EntityUrn(i) == <<"u","r","n",":","l","i",":","t","a","g",":">> \o <<Digits[i + 1]>>

\* the entities a search response lists
Entities(n) == [i \in 1..n |-> [entity |-> EntityUrn(i)]]

SearchResponses ==
    {TransportError}
    \cup {HttpResponse(st, TRUE, NoJson) : st \in Statuses \ {HTTP_OK}}
    \cup {HttpResponse(HTTP_OK, FALSE, NoJson)}
    \cup {HttpResponse(HTTP_OK, TRUE,
                       [value |-> [numEntities |-> num, entities |-> Entities(n)]]) :
            num \in 0..MaxEntities, n \in 0..MaxEntities}

Generator(op, args) ==
    [op |-> op, pc |-> "created", exc |-> "none", args |-> args,
     response |-> TransportError, entities_yielded |-> 0, yielded |-> <<>>,
     warnings |-> 0]

Raise(f, exc) == [f EXCEPT !.pc = "raised", !.exc = exc]

\* the part of a generator body before the response is looked at:
\* [exc, requests]
post_search(sh, payload) ==
    IF sh.exc # "none" THEN [exc |-> sh.exc, requests |-> <<>>]
    ELSE LET url == concat(sh.host, ENDPOINT_search)
         IN  IF url.exc # "none" THEN [exc |-> url.exc, requests |-> <<>>]
             ELSE IF sh.session = None
             THEN [exc |-> "AttributeError", requests |-> <<>>]
             ELSE [exc |-> "none",
                   requests |-> <<Request("POST", url.value, sh.host, sh.session,
                                          payload)>>]

\* the loop of get_urns_by_filter from its current position to the next
\* yield or to the end; a mismatch of the counts only logs a warning
get_urns_by_filter_loop(f) ==
    LET results == f.response.json
        num_entities == results.value.numEntities
        entities == results.value.entities
    IN  IF f.entities_yielded < Len(entities)
        THEN [f EXCEPT !.pc = "suspended",
                       !.entities_yielded = @ + 1,
                       !.yielded = Append(@, entities[f.entities_yielded + 1].entity)]
        ELSE IF f.entities_yielded # num_entities
        THEN [f EXCEPT !.pc = "done", !.warnings = @ + 1]
        ELSE [f EXCEPT !.pc = "done"]

\* get_container_ids_by_filter with the warning of get_urns_by_filter
get_container_ids_by_filter_loop_warns(f) == get_urns_by_filter_loop(f)

\* the loop of get_container_ids_by_filter; a mismatch fails an assertion
get_container_ids_by_filter_loop(f) ==
    LET results == f.response.json
        num_entities == results.value.numEntities
        entities == results.value.entities
    IN  IF f.entities_yielded < Len(entities)
        THEN [f EXCEPT !.pc = "suspended",
                       !.entities_yielded = @ + 1,
                       !.yielded = Append(@, entities[f.entities_yielded + 1].entity)]
        ELSE IF f.entities_yielded = num_entities
        THEN [f EXCEPT !.pc = "done"]
        ELSE Raise(f, "AssertionError")

\* a search generator from its start to its first yield, end or exception,
\* given the outcome pre of the request and the response
get_urns_by_filter_start(f, pre, response) ==
    IF pre.exc # "none" THEN Raise(f, pre.exc)
    ELSE IF response.kind = "error" THEN Raise(f, "ConnectionError")
    ELSE IF response.status = HTTP_OK
    THEN IF ~response.content THEN Raise([f EXCEPT !.response = response], "AssertionError")
         ELSE get_urns_by_filter_loop([f EXCEPT !.response = response])
    ELSE IF raises_for_status(response.status)
    THEN Raise([f EXCEPT !.response = response], "HTTPError")
    ELSE [f EXCEPT !.response = response, !.pc = "done"]

get_container_ids_by_filter_start(f, pre, response) ==
    IF pre.exc # "none" THEN Raise(f, pre.exc)
    ELSE IF response.kind = "error" THEN Raise(f, "ConnectionError")
    ELSE IF response.status = HTTP_OK
    THEN IF ~response.content THEN Raise([f EXCEPT !.response = response], "AssertionError")
         ELSE get_container_ids_by_filter_loop([f EXCEPT !.response = response])
    ELSE IF raises_for_status(response.status)
    THEN Raise([f EXCEPT !.response = response], "HTTPError")
    ELSE [f EXCEPT !.response = response, !.pc = "done"]

CONTAINER_SUBTYPES == <<"Database", "Schema", "Project", "Dataset">>

STR_instance == <<"i","n","s","t","a","n","c","e","=">>

\* the search_body of get_container_ids_by_filter
get_container_ids_by_filter_body(a) ==
    [input |-> a.search_query, entity |-> a.entity_type, start |-> 0,
     count |-> SEARCH_COUNT,
     filter |-> [or |-> [i \in 1..Len(CONTAINER_SUBTYPES) |->
                     [and |-> <<Criterion("customProperties",
                                          STR_instance \o format_value(a.env)),
                                Criterion("typeNames", CONTAINER_SUBTYPES[i])>>]]]]

-----------------------------------------------------------------------------
(* Urn helpers of datahub.utilities.urns.urn *)

Unreserved ==
    {Upper[i] : i \in 1..Len(Upper)} \cup {Lower[i] : i \in 1..Len(Lower)}
    \cup {Digits[i] : i \in 1..Len(Digits)} \cup {"_", ".", "-", "~"}

PercentCode ==
    (":" :> <<"%","3","A">>) @@ ("%" :> <<"%","2","5">>) @@ ("/" :> <<"%","2","F">>)
    @@ ("," :> <<"%","2","C">>) @@ ("(" :> <<"%","2","8">>) @@ (")" :> <<"%","2","9">>)
    @@ (" " :> <<"%","2","0">>) @@ ("=" :> <<"%","3","D">>) @@ ("?" :> <<"%","3","F">>)
    @@ ("&" :> <<"%","2","6">>) @@ ("*" :> <<"%","2","A">>)

\* Urn.url_encode: every character outside the unreserved set becomes %XX
RECURSIVE url_encode(_)
url_encode(s) ==
    IF Len(s) = 0 THEN EmptyStr
    ELSE (IF Head(s) \in Unreserved \/ Head(s) \notin DOMAIN PercentCode
          THEN <<Head(s)>> ELSE PercentCode[Head(s)])
         \o url_encode(Tail(s))

\* str.split(":")
RECURSIVE split_colon(_)
split_colon(s) ==
    IF \A i \in 1..Len(s) : s[i] # ":" THEN <<s>>
    ELSE LET k == CHOOSE i \in 1..Len(s) :
                     s[i] = ":" /\ \A j \in 1..(i - 1) : s[j] # ":"
         IN  <<SubSeq(s, 1, k - 1)>> \o split_colon(SubSeq(s, k + 1, Len(s)))

\* guess_entity_type of a raw urn "urn:li:<type>:<id>"
guess_entity_type(urn) == split_colon(urn)[3]

-----------------------------------------------------------------------------
(* get_entity *)

STR_urn_encoded == <<"u","r","n","%","3","A">>
STR_urn_raw == <<"u","r","n",":">>
ENDPOINT_entitiesV2 == <<"/","e","n","t","i","t","i","e","s","V","2">>
STR_aspects_list == <<"?","a","s","p","e","c","t","s","=","L","i","s","t","(">>

\* the classification with the encoding applied to every accepted urn
encoded_urn_always_encodes(urn) ==
    IF startswith(urn, STR_urn_encoded) \/ startswith(urn, STR_urn_raw)
    THEN [exc |-> "none", value |-> url_encode(urn)]
    ELSE [exc |-> "Exception", value |-> None]

\* lines 569-577: the urn as it is placed in the path, or the exception
encoded_urn(urn) ==
    IF startswith(urn, STR_urn_encoded) THEN [exc |-> "none", value |-> urn]
    ELSE IF startswith(urn, STR_urn_raw) THEN [exc |-> "none", value |-> url_encode(urn)]
    ELSE [exc |-> "Exception", value |-> None]

\* get_entity(urn, aspect, ...) on the session and host sh and the server's
\* response: [exc, result, requests].  An aspect list that is None behaves
\* as the empty list.
get_entity(sh, urn, aspect, response) ==
    LET fail(e) == [exc |-> e, result |-> NoJson, requests |-> <<>>]
        \* lines 583-585: the request `sent` is answered by `response`
        answered(sent) ==
            IF response.kind = "error"
            THEN [exc |-> "ConnectionError", result |-> NoJson, requests |-> sent]
            ELSE IF raises_for_status(response.status)
            THEN [exc |-> "HTTPError", result |-> NoJson, requests |-> sent]
            ELSE IF ~response.content
            THEN [exc |-> "JSONDecodeError", result |-> NoJson, requests |-> sent]
            ELSE [exc |-> "none", result |-> response.json, requests |-> sent]
        get(url) ==
            IF url.exc # "none" THEN fail(url.exc)
            ELSE answered(<<Request("GET", url.value, sh.host, sh.session, NoPayload)>>)
        with_urn(enc) ==
            IF enc.exc # "none" THEN fail(enc.exc)
            ELSE IF sh.session = None THEN fail("AttributeError")
            ELSE get(concat(sh.host,
                            ENDPOINT_entitiesV2 \o <<"/">> \o enc.value
                            \o (IF Len(aspect) > 0
                                THEN STR_aspects_list \o join_comma(aspect) \o <<")">>
                                ELSE EmptyStr)))
    IN  IF sh.exc # "none" THEN fail(sh.exc)
        ELSE with_urn(encoded_urn(urn))

-----------------------------------------------------------------------------
(* Aspects.  ASPECT_MAP and TIMESERIES_ASPECT_MAP of datahub.emitter.aspect *)
(* are the registered aspect names; the second is a subset of the first.   *)

STR_ownership == <<"o","w","n","e","r","s","h","i","p">>
STR_status == <<"s","t","a","t","u","s">>
STR_datasetProfile == <<"d","a","t","a","s","e","t","P","r","o","f","i","l","e">>

ASPECT_MAP == {STR_ownership, STR_status, STR_datasetProfile}
TIMESERIES_ASPECT_MAP == {STR_datasetProfile}

EmptyDict == <<>>

\* dict.get(key, default) on a JSON object
dict_get(d, key, default) == IF key \in DOMAIN d THEN d[key] ELSE default

\* a JSON text and what json.loads makes of it
JsonText(v) == [wellformed |-> TRUE, decoded |-> v]
JsonGarbage == [wellformed |-> FALSE, decoded |-> NoJson]

json_loads(text) ==
    IF text.wellformed THEN [exc |-> "none", value |-> text.decoded]
    ELSE [exc |-> "JSONDecodeError", value |-> NoJson]

ENDPOINT_timeseries ==
    <<"/","a","s","p","e","c","t","s","?","a","c","t","i","o","n","=","g","e","t",
      "T","i","m","e","s","e","r","i","e","s","A","s","p","e","c","t","V","a","l","u","e","s">>

\* get_latest_timeseries_aspect_values with the exceptions of the request
\* reaching the caller
get_latest_timeseries_aspect_values_propagates(sh, entity_urn, timeseries_aspect_name, response) ==
    LET query_body == [urn |-> entity_urn, entity |-> guess_entity_type(entity_urn),
                       aspect |-> timeseries_aspect_name, latestValue |-> TRUE]
        fail(e, sent) == [exc |-> e, result |-> EmptyDict, requests |-> sent]
        answered(sent) ==
            IF response.kind = "error" THEN fail("ConnectionError", sent)
            ELSE IF raises_for_status(response.status) THEN fail("HTTPError", sent)
            ELSE IF ~response.content THEN fail("JSONDecodeError", sent)
            ELSE [exc |-> "none", result |-> response.json, requests |-> sent]
        post(url) ==
            IF url.exc # "none" THEN fail("TypeError", <<>>)
            ELSE answered(<<Request("POST", url.value, sh.host, sh.session, query_body)>>)
    IN  IF sh.exc # "none" THEN fail(sh.exc, <<>>)
        ELSE IF sh.session = None THEN fail("AttributeError", <<>>)
        ELSE post(concat(sh.host, ENDPOINT_timeseries))

\* get_latest_timeseries_aspect_values: [exc, result, requests]; whatever the
\* try block raises is swallowed and {} is returned
get_latest_timeseries_aspect_values(sh, entity_urn, timeseries_aspect_name, response) ==
    LET query_body == [urn |-> entity_urn, entity |-> guess_entity_type(entity_urn),
                       aspect |-> timeseries_aspect_name, latestValue |-> TRUE]
        swallowed(sent) == [exc |-> "none", result |-> EmptyDict, requests |-> sent]
        answered(sent) ==
            IF response.kind = "error" THEN swallowed(sent)
            ELSE IF raises_for_status(response.status) THEN swallowed(sent)
            ELSE IF ~response.content THEN swallowed(sent)
            ELSE [exc |-> "none", result |-> response.json, requests |-> sent]
        post(url) ==
            IF url.exc # "none" THEN swallowed(<<>>)
            ELSE answered(<<Request("POST", url.value, sh.host, sh.session, query_body)>>)
    IN  IF sh.exc # "none"
        THEN [exc |-> sh.exc, result |-> EmptyDict, requests |-> <<>>]
        ELSE IF sh.session = None THEN swallowed(<<>>)
        ELSE post(concat(sh.host, ENDPOINT_timeseries))

\* the loop of lines 670-683 over the timeseries aspects that are left;
\* acc is [exc, aspect_list, requests]
RECURSIVE timeseries_loop(_, _, _, _, _)
timeseries_loop(timeseries_aspects, sh, entity_urn, ts_responses, acc) ==
    IF Len(timeseries_aspects) = 0 \/ acc.exc # "none" THEN acc
    ELSE LET timeseries_aspect == Head(timeseries_aspects)
             \* lines 678-683 on the first of the values
             store(decoded, reqs) ==
                IF decoded.exc # "none"
                THEN [acc EXCEPT !.exc = decoded.exc, !.requests = reqs]
                ELSE [acc EXCEPT
                        !.aspect_list =
                            (timeseries_aspect :> [value |-> decoded.value]) @@ @,
                        !.requests = reqs]
             with_values(values, reqs) ==
                IF Len(values) > 0 /\ timeseries_aspect \in ASPECT_MAP
                THEN store(json_loads(values[1].aspect.value), reqs)
                ELSE [acc EXCEPT !.requests = reqs]
             \* lines 671-676 have returned r
             next(r) ==
                IF r.exc # "none"
                THEN [acc EXCEPT !.exc = r.exc, !.requests = acc.requests \o r.requests]
                ELSE with_values(
                         dict_get(dict_get(r.result, "value", EmptyDict), "values", <<>>),
                         acc.requests \o r.requests)
         IN  timeseries_loop(Tail(timeseries_aspects), sh, entity_urn, ts_responses,
                 next(get_latest_timeseries_aspect_values(
                          sh, entity_urn, timeseries_aspect,
                          ts_responses[timeseries_aspect])))

\* the value a typed call stores for an aspect
Typed(aspect_dict) == [typed |-> aspect_dict]

\* get_aspects_for_entity: [exc, result, requests].  conv_fails are the
\* aspect names whose typed conversion raises (logged, the aspect dropped).
get_aspects_for_entity(sh, entity_urn, aspects, typed, entity_response, ts_responses, conv_fails) ==
    LET non_timeseries_aspects ==
            SelectSeq(aspects, LAMBDA a : a \notin TIMESERIES_ASPECT_MAP)
        timeseries_aspects == SelectSeq(aspects, LAMBDA a : a \in TIMESERIES_ASPECT_MAP)
        requested == {aspects[i] : i \in 1..Len(aspects)}
        \* lines 685-706: the aspect_map built from aspect_list, then filtered
        collect(aspect_list) ==
            LET kept == {n \in DOMAIN aspect_list :
                           ~typed \/ (n \in ASPECT_MAP /\ n \notin conv_fails)}
            IN  [n \in (IF Len(aspects) > 0 THEN kept \cap requested ELSE kept) |->
                    IF typed THEN Typed(aspect_list[n].value) ELSE aspect_list[n].value]
        \* lines 670-683 have run with outcome t
        after_timeseries(t) ==
            IF t.exc # "none"
            THEN [exc |-> t.exc, result |-> EmptyDict, requests |-> t.requests]
            ELSE [exc |-> "none", result |-> collect(t.aspect_list),
                  requests |-> t.requests]
        \* lines 665-667 have run with outcome e
        after_entity(e) ==
            IF e.exc # "none"
            THEN [exc |-> e.exc, result |-> EmptyDict, requests |-> e.requests]
            ELSE after_timeseries(
                     timeseries_loop(timeseries_aspects, sh, entity_urn, ts_responses,
                         [exc |-> "none", aspect_list |-> e.result.aspects,
                          requests |-> e.requests]))
    IN  after_entity(get_entity(sh, entity_urn, non_timeseries_aspects, entity_response))

-----------------------------------------------------------------------------
(* batch_get_ids and get_relationships *)

STR_ids_list == <<"?","i","d","s","=","L","i","s","t","(">>
STR_relationships_urn ==
    <<"/","r","e","l","a","t","i","o","n","s","h","i","p","s","?","u","r","n","=">>
STR_direction == <<"&","d","i","r","e","c","t","i","o","n","=">>
STR_types_list == <<"&","t","y","p","e","s","=","L","i","s","t","(">>
STR_INCOMING == <<"I","N","C","O","M","I","N","G">>
STR_OUTGOING == <<"O","U","T","G","O","I","N","G">>

\* the request of batch_get_ids: [exc, requests]
batch_get_ids_request(sh, ids) ==
    IF sh.exc # "none" THEN [exc |-> sh.exc, requests |-> <<>>]
    ELSE LET url == concat(sh.host, ENDPOINT_entitiesV2)
             ids_to_get == [i \in 1..Len(ids) |-> url_encode(ids[i])]
         IN  IF url.exc # "none" THEN [exc |-> url.exc, requests |-> <<>>]
             ELSE IF sh.session = None
             THEN [exc |-> "AttributeError", requests |-> <<>>]
             ELSE [exc |-> "none",
                   requests |-> <<Request("GET",
                                     url.value \o STR_ids_list \o join_comma(ids_to_get)
                                       \o <<")">>,
                                     sh.host, sh.session, NoPayload)>>]

\* batch_get_ids comparing the count with the number of ids asked for
batch_get_ids_loop_ids_asked(f) ==
    LET results == f.response.json
        num_entities == Len(f.args.ids)
    IN  IF f.entities_yielded < Len(results.results)
        THEN [f EXCEPT !.pc = "suspended",
                       !.entities_yielded = @ + 1,
                       !.yielded = Append(@, results.results[f.entities_yielded + 1].value)]
        ELSE IF f.entities_yielded = num_entities
        THEN [f EXCEPT !.pc = "done"]
        ELSE Raise(f, "AssertionError")

\* the loop of batch_get_ids over the values of the results mapping, which
\* the model holds as the sequence of its entries
batch_get_ids_loop(f) ==
    LET results == f.response.json
        num_entities == Len(results.results)
    IN  IF f.entities_yielded < Len(results.results)
        THEN [f EXCEPT !.pc = "suspended",
                       !.entities_yielded = @ + 1,
                       !.yielded = Append(@, results.results[f.entities_yielded + 1].value)]
        ELSE IF f.entities_yielded = num_entities
        THEN [f EXCEPT !.pc = "done"]
        ELSE Raise(f, "AssertionError")

\* batch_get_ids from its start to its first yield, end or exception.  A
\* body that is not JSON fails json.loads, a JSON object without "results"
\* fails results["results"].
batch_get_ids_start(f, pre, response) ==
    IF pre.exc # "none" THEN Raise(f, pre.exc)
    ELSE IF response.kind = "error" THEN Raise(f, "ConnectionError")
    ELSE IF response.status = HTTP_OK
    THEN IF ~response.content THEN Raise([f EXCEPT !.response = response], "AssertionError")
         ELSE IF "none" \in DOMAIN response.json
         THEN Raise([f EXCEPT !.response = response], "JSONDecodeError")
         ELSE IF "results" \notin DOMAIN response.json
         THEN Raise([f EXCEPT !.response = response], "KeyError")
         ELSE batch_get_ids_loop([f EXCEPT !.response = response])
    ELSE IF raises_for_status(response.status)
    THEN Raise([f EXCEPT !.response = response], "HTTPError")
    ELSE [f EXCEPT !.response = response, !.pc = "done"]

\* the request of get_relationships; the host is formatted into the url
get_relationships_request(sh, a) ==
    IF sh.exc # "none" THEN [exc |-> sh.exc, requests |-> <<>>]
    ELSE LET endpoint == format_value(sh.host) \o STR_relationships_urn
                         \o url_encode(a.urn) \o STR_direction \o a.direction
                         \o STR_types_list \o join_comma(a.types) \o <<")">>
         IN  IF sh.session = None
             THEN [exc |-> "AttributeError", requests |-> <<>>]
             ELSE [exc |-> "none",
                   requests |-> <<Request("GET", endpoint, sh.host, sh.session,
                                          NoPayload)>>]

\* the loop of get_relationships; a mismatch of the counts only warns
get_relationships_loop(f) ==
    LET results == f.response.json
        num_entities == results.count
    IN  IF f.entities_yielded < Len(results.relationships)
        THEN [f EXCEPT !.pc = "suspended",
                       !.entities_yielded = @ + 1,
                       !.yielded = Append(@, results.relationships[f.entities_yielded + 1])]
        ELSE IF f.entities_yielded # num_entities
        THEN [f EXCEPT !.pc = "done", !.warnings = @ + 1]
        ELSE [f EXCEPT !.pc = "done"]

get_relationships_start(f, pre, response) ==
    IF pre.exc # "none" THEN Raise(f, pre.exc)
    ELSE IF response.kind = "error" THEN Raise(f, "ConnectionError")
    ELSE IF response.status = HTTP_OK
    THEN IF ~response.content
         THEN Raise([f EXCEPT !.response = response], "JSONDecodeError")
         ELSE get_relationships_loop([f EXCEPT !.response = response])
    ELSE IF raises_for_status(response.status)
    THEN Raise([f EXCEPT !.response = response], "HTTPError")
    ELSE [f EXCEPT !.response = response, !.pc = "done"]

-----------------------------------------------------------------------------
(* test_connection and post_entity *)

STR_config == <<"/","c","o","n","f","i","g">>
ENDPOINT_ingest ==
    <<"/","a","s","p","e","c","t","s","/","?","a","c","t","i","o","n","=",
      "i","n","g","e","s","t","P","r","o","p","o","s","a","l">>
STR_false == <<"f","a","l","s","e">>

\* test_connection(): [exc, requests]
test_connection(sh, response) ==
    IF sh.exc # "none" THEN [exc |-> sh.exc, requests |-> <<>>]
    ELSE LET url == format_value(sh.host) \o STR_config
         IN  IF sh.session = None THEN [exc |-> "AttributeError", requests |-> <<>>]
             ELSE LET sent == <<Request("GET", url, sh.host, sh.session, NoPayload)>>
                  IN  IF response.kind = "error"
                      THEN [exc |-> "ConnectionError", requests |-> sent]
                      ELSE IF raises_for_status(response.status)
                      THEN [exc |-> "HTTPError", requests |-> sent]
                      ELSE [exc |-> "none", requests |-> sent]

\* test_connectivity_complain_exit(): any Exception of test_connection ends
\* in sys.exit(1)
test_connectivity_complain_exit(sh, response) ==
    LET r == test_connection(sh, response)
    IN  IF r.exc = "none" THEN r ELSE [r EXCEPT !.exc = "SystemExit"]

\* post_entity(...): [exc, result, requests], the result being the status
post_entity(sh, a, response) ==
    LET proposal ==
            [proposal |-> [entityType |-> a.entity_type, entityUrn |-> a.urn,
                           aspectName |-> a.aspect_name, changeType |-> "UPSERT",
                           aspect |-> [contentType |-> "application/json",
                                       value |-> JsonText(a.aspect_value)]],
             async |-> a.is_async]
        pre == post_payload(sh, ENDPOINT_ingest, proposal)
    IN  IF pre.exc # "none" THEN [exc |-> pre.exc, result |-> 0, requests |-> <<>>]
        ELSE IF response.kind = "error"
        THEN [exc |-> "ConnectionError", result |-> 0, requests |-> pre.requests]
        ELSE IF raises_for_status(response.status)
        THEN [exc |-> "HTTPError", result |-> 0, requests |-> pre.requests]
        ELSE [exc |-> "none", result |-> response.status, requests |-> pre.requests]

-----------------------------------------------------------------------------
(* Delete, delete-references and rollback.  The body of a run response is  *)
(* a JSON value: JDict(d) for an object with the entries d, JOther for     *)
(* anything that is not an object.                                         *)

JDict(d) == [isdict |-> TRUE, d |-> d]
JOther == [isdict |-> FALSE, d |-> EmptyDict]

\* parse_run_restli_response without the status test of lines 244-253
parse_run_restli_response_any_status(response) ==
    LET response_json == response.json
        fail(e) == [exc |-> e, summary |-> EmptyDict]
    IN  IF ~response.content THEN fail("JSONDecodeError")
        ELSE IF ~response_json.isdict THEN fail("SystemExit")
        ELSE LET summary == dict_get(response_json.d, "value", JOther)
             IN  IF ~summary.isdict THEN fail("SystemExit")
                 ELSE [exc |-> "none", summary |-> summary.d]

\* parse_run_restli_response(response): [exc, summary]
parse_run_restli_response(response) ==
    LET response_json == response.json
        fail(e) == [exc |-> e, summary |-> EmptyDict]
    IN  IF ~response.content THEN fail("JSONDecodeError")
        ELSE IF response.status # HTTP_OK
        THEN IF ~response_json.isdict /\ raises_for_status(response.status)
             THEN fail("HTTPError")
             ELSE fail("SystemExit")
        ELSE IF ~response_json.isdict THEN fail("SystemExit")
        ELSE LET summary == dict_get(response_json.d, "value", JOther)
             IN  IF ~summary.isdict THEN fail("SystemExit")
                 ELSE [exc |-> "none", summary |-> summary.d]

MILLIS_PER_SECOND == 1000

\* the timestamp as strftime("%Y-%m-%d %H:%M:%S") renders it: the whole
\* seconds of the milliseconds given
format_timestamp(timestamp) == [seconds |-> timestamp \div MILLIS_PER_SECOND]

format_aspect_summaries(summaries) ==
    [i \in 1..Len(summaries) |->
        <<summaries[i].urn, summaries[i].aspectName,
          format_timestamp(summaries[i].timestamp)>>]

\* the rows of lines 303-305 without the filter
rolled_back_aspects_unfiltered(rows, payload_obj) == rows

\* lines 303-305: the rows of the run that was asked for
rolled_back_aspects(rows, payload_obj) ==
    SelectSeq(rows, LAMBDA row : row.runId = payload_obj.runId)

\* the part of a helper after the request: [exc, summary]
run_summary(pre, response) ==
    IF pre.exc # "none" THEN [exc |-> pre.exc, summary |-> EmptyDict]
    ELSE IF response.kind = "error" THEN [exc |-> "ConnectionError", summary |-> EmptyDict]
    ELSE parse_run_restli_response(response)

\* post_rollback_endpoint: [exc, result, warned, requests]
post_rollback_endpoint(sh, payload_obj, path, response) ==
    LET pre == post_payload(sh, path, payload_obj)
        parsed == run_summary(pre, response)
        summary == parsed.summary
        rows == dict_get(summary, "aspectRowSummaries", <<>>)
    IN  IF parsed.exc # "none"
        THEN [exc |-> parsed.exc, result |-> <<>>, warned |-> FALSE,
              requests |-> pre.requests]
        ELSE [exc |-> "none",
              result |-> <<format_aspect_summaries(rolled_back_aspects(rows, payload_obj)),
                           dict_get(summary, "entitiesAffected", 0),
                           dict_get(summary, "aspectsReverted", 0),
                           dict_get(summary, "aspectsAffected", 0),
                           dict_get(summary, "unsafeEntitiesCount", 0),
                           dict_get(summary, "unsafeEntities", <<>>)>>,
              warned |-> (Len(rows) = 0),
              requests |-> pre.requests]

\* post_delete_references_endpoint: [exc, result, requests]
post_delete_references_endpoint(sh, payload_obj, path, response) ==
    LET pre == post_payload(sh, path, payload_obj)
        parsed == run_summary(pre, response)
    IN  IF parsed.exc # "none"
        THEN [exc |-> parsed.exc, result |-> <<>>, requests |-> pre.requests]
        ELSE [exc |-> "none",
              result |-> <<dict_get(parsed.summary, "total", 0),
                           dict_get(parsed.summary, "relatedAspects", <<>>)>>,
              requests |-> pre.requests]

\* post_delete_endpoint_with_session_and_url(session, url, payload_obj), the
\* request having been made or not (pre): [exc, result, requests]
post_delete_endpoint_with_session_and_url(pre, response) ==
    LET parsed == run_summary(pre, response)
    IN  IF parsed.exc # "none"
        THEN [exc |-> parsed.exc, result |-> <<>>, requests |-> pre.requests]
        ELSE [exc |-> "none",
              result |-> <<dict_get(parsed.summary, "urn", EmptyStr),
                           dict_get(parsed.summary, "rows", 0),
                           dict_get(parsed.summary, "timeseriesRows", 0)>>,
              requests |-> pre.requests]

\* post_delete_endpoint: [exc, result, requests]
post_delete_endpoint(sh, payload_obj, path, response) ==
    post_delete_endpoint_with_session_and_url(post_payload(sh, path, payload_obj),
                                              response)

-----------------------------------------------------------------------------
(* Inputs of the query operations *)

STR_hive == <<"h","i","v","e">>
STR_PROD == <<"P","R","O","D">>

Platforms == {None, STR_hive}
Envs == {None, EmptyStr, STR_PROD}
EntityTypes == {STR_dataset, <<"D","a","t","a","F","l","o","w">>, STR_datajob,
                STR_container, <<"C","O","N","T","A","I","N","E","R">>,
                STR_chart, <<"D","a","s","h","b","o","a","r","d">>,
                <<"t","a","g">>}

GetUrnsByFilterArgs ==
    [platform : Platforms, env : Envs, entity_type : EntityTypes,
     search_query : {STR_star}, include_removed : BOOLEAN,
     only_soft_deleted : BOOLEAN]

GetContainerIdsByFilterArgs ==
    [env : Envs, entity_type : {STR_container}, search_query : {STR_star}]

URL_cached == <<"h","t","t","p",":","/","/","k">>

\* the cached_session_host argument: None or a (session, host) pair
CachedSessionHosts == {None, <<Session(BaseHeaders), URL_cached>>}

URN_raw == EntityUrn(1)
URN_encoded == url_encode(URN_raw)
NOT_A_URN == <<"n","o","t","A","U","r","n">>

AspectLists == {<<>>, <<STR_ownership>>, <<STR_datasetProfile>>,
                <<STR_ownership, STR_datasetProfile>>}

EntityAspect(name) == [value |-> [aspect |-> name, origin |-> "entity"]]

EntityResponses ==
    {TransportError, HttpResponse(500, TRUE, NoJson), HttpResponse(HTTP_OK, FALSE, NoJson)}
    \cup {HttpResponse(HTTP_OK, TRUE, [aspects |-> [n \in held |-> EntityAspect(n)]]) :
            held \in SUBSET {STR_ownership, STR_status}}

TimeseriesValue(name) == [aspect |-> name, origin |-> "timeseries"]

TimeseriesResponses ==
    {TransportError, HttpResponse(500, TRUE, NoJson),
     HttpResponse(HTTP_OK, TRUE, EmptyDict),
     HttpResponse(HTTP_OK, TRUE, [value |-> [values |-> <<>>]]),
     HttpResponse(HTTP_OK, TRUE, [value |-> [values |->
         <<[aspect |-> [value |-> JsonText(TimeseriesValue(STR_datasetProfile))]]>>]]),
     HttpResponse(HTTP_OK, TRUE, [value |-> [values |->
         <<[aspect |-> [value |-> JsonGarbage]]>>]])}

MaxRows == 3

RunIds == {<<"r","u","n","-","1">>, <<"r","u","n","-","2">>}

\* the rows a rollback response may list
RowSummaries ==
    {[urn |-> EntityUrn(i), aspectName |-> STR_ownership,
      timestamp |-> i * MILLIS_PER_SECOND + 999, runId |-> r] :
        i \in 1..2, r \in RunIds}

RowLists == UNION {[1..n -> RowSummaries] : n \in 0..MaxRows}

RollbackSummaries ==
    {EmptyDict}
    \cup {[aspectRowSummaries |-> rows, entitiesAffected |-> Len(rows),
           aspectsReverted |-> Len(rows), aspectsAffected |-> Len(rows),
           unsafeEntitiesCount |-> 0, unsafeEntities |-> <<>>] : rows \in RowLists}

DeleteSummaries == {EmptyDict, [urn |-> URN_raw, rows |-> 2, timeseriesRows |-> 1]}

ReferencesSummaries ==
    {EmptyDict, [total |-> 1, relatedAspects |-> <<[entity |-> EntityUrn(2)]>>]}

\* the responses of a run endpoint whose summaries are the given ones
RunResponses(summaries) ==
    {TransportError,
     HttpResponse(500, FALSE, NoJson),
     HttpResponse(500, TRUE, JOther),
     HttpResponse(500, TRUE, JDict([message |-> "failed"])),
     HttpResponse(500, TRUE, JDict(EmptyDict)),
     HttpResponse(302, TRUE, JOther),
     HttpResponse(HTTP_OK, TRUE, JOther),
     HttpResponse(HTTP_OK, TRUE, JDict(EmptyDict)),
     HttpResponse(HTTP_OK, TRUE, JDict([value |-> JOther])),
     HttpResponse(HTTP_OK, FALSE, NoJson),
     HttpResponse(302, TRUE, JDict([value |-> JDict(EmptyDict)])),
     HttpResponse(500, TRUE, JDict([value |-> JDict(EmptyDict)]))}
    \cup {HttpResponse(HTTP_OK, TRUE, JDict([value |-> JDict(summary)])) :
            summary \in summaries}

PATH_rollback ==
    <<"/","r","u","n","s","?","a","c","t","i","o","n","=","r","o","l","l","b","a","c","k">>
PATH_delete ==
    <<"/","e","n","t","i","t","i","e","s","?","a","c","t","i","o","n","=","d","e","l","e","t","e">>
PATH_delete_references ==
    <<"/","e","n","t","i","t","i","e","s","?","a","c","t","i","o","n","=",
      "d","e","l","e","t","e","R","e","f","e","r","e","n","c","e","s">>

\* the entries of the results mapping of a batch response
BatchResults(n) ==
    [i \in 1..n |-> [key |-> EntityUrn(i), value |-> [urn |-> EntityUrn(i)]]]

BatchResponses ==
    {TransportError}
    \cup {HttpResponse(st, TRUE, NoJson) : st \in Statuses \ {HTTP_OK}}
    \cup {HttpResponse(HTTP_OK, FALSE, NoJson)}
    \cup {HttpResponse(HTTP_OK, TRUE, NoJson),
          HttpResponse(HTTP_OK, TRUE, [message |-> "no results"])}
    \cup {HttpResponse(HTTP_OK, TRUE, [results |-> BatchResults(n)]) :
            n \in 0..MaxEntities}

Relationships(n) == [i \in 1..n |-> [entity |-> EntityUrn(i), type |-> "OwnedBy"]]

RelationshipResponses ==
    {TransportError}
    \cup {HttpResponse(st, TRUE, NoJson) : st \in Statuses \ {HTTP_OK}}
    \cup {HttpResponse(HTTP_OK, FALSE, NoJson)}
    \cup {HttpResponse(HTTP_OK, TRUE, [count |-> c, relationships |-> Relationships(n)]) :
            c \in 0..MaxEntities, n \in 0..MaxEntities}

IdLists == {[i \in 1..n |-> EntityUrn(i)] : n \in 0..MaxEntities}

GetRelationshipsArgs ==
    [urn : {URN_raw}, types : {<<>>, <<<<"O","w","n","e","d","B","y">>>>},
     direction : {STR_INCOMING, STR_OUTGOING}]

PlainResponses ==
    {TransportError, HttpResponse(500, TRUE, NoJson), HttpResponse(HTTP_OK, TRUE, NoJson)}

-----------------------------------------------------------------------------
(* Query operations *)

\* get_urns_by_filter(...): the generator is created, nothing runs yet
GetUrnsByFilter ==
    /\ Idle
    /\ \E a \in GetUrnsByFilterArgs :
               /\ call' = Generator("get_urns_by_filter", a)
               /\ requests' = <<>>
               /\ UNCHANGED <<environ, config_file, config_override, last_override>>

\* next() on the generator of get_urns_by_filter
GetUrnsByFilterNext ==
    /\ call.op = "get_urns_by_filter"
    /\ \/ /\ call.pc = "created"
          /\ \E response \in SearchResponses :
                LET sh == get_session_and_host(environ, config_file, config_override)
                    pre == post_search(sh, get_urns_by_filter_body(call.args))
                IN  /\ call' = get_urns_by_filter_start(call, pre, response)
                    /\ requests' = pre.requests
                    /\ config_file' = sh.file
       \/ /\ call.pc = "suspended"
          /\ call' = get_urns_by_filter_loop(call)
          /\ UNCHANGED <<requests, config_file>>
    /\ UNCHANGED <<environ, config_override, last_override>>

GetContainerIdsByFilter ==
    /\ Idle
    /\ \E a \in GetContainerIdsByFilterArgs :
               /\ call' = Generator("get_container_ids_by_filter", a)
               /\ requests' = <<>>
               /\ UNCHANGED <<environ, config_file, config_override, last_override>>

GetContainerIdsByFilterNext ==
    /\ call.op = "get_container_ids_by_filter"
    /\ \/ /\ call.pc = "created"
          /\ \E response \in SearchResponses :
                LET sh == get_session_and_host(environ, config_file, config_override)
                    pre == post_search(sh, get_container_ids_by_filter_body(call.args))
                IN  /\ call' = get_container_ids_by_filter_start(call, pre, response)
                    /\ requests' = pre.requests
                    /\ config_file' = sh.file
       \/ /\ call.pc = "suspended"
          /\ call' = get_container_ids_by_filter_loop(call)
          /\ UNCHANGED <<requests, config_file>>
    /\ UNCHANGED <<environ, config_override, last_override>>

GetEntity ==
    /\ Idle
    /\ \E urn \in {URN_raw, URN_encoded, NOT_A_URN},
              aspect \in {<<>>, <<STR_ownership>>, <<STR_ownership, STR_status>>},
              cached \in CachedSessionHosts, response \in EntityResponses :
               LET sh == session_and_host(cached, environ, config_file, config_override)
                   r == get_entity(sh, urn, aspect, response)
               IN  /\ call' = [op |-> "get_entity",
                               pc |-> IF r.exc = "none" THEN "returned" ELSE "raised",
                               exc |-> r.exc,
                               args |-> [urn |-> urn, aspect |-> aspect, cached |-> cached],
                               result |-> r.result]
                   /\ requests' = r.requests
                   /\ config_file' = sh.file
                   /\ UNCHANGED <<environ, config_override, last_override>>

GetLatestTimeseriesAspectValues ==
    /\ Idle
    /\ \E cached \in CachedSessionHosts, response \in TimeseriesResponses :
               LET sh == session_and_host(cached, environ, config_file, config_override)
                   r == get_latest_timeseries_aspect_values(sh, URN_raw, STR_datasetProfile,
                                                            response)
               IN  /\ call' = [op |-> "get_latest_timeseries_aspect_values",
                               pc |-> IF r.exc = "none" THEN "returned" ELSE "raised",
                               exc |-> r.exc,
                               args |-> [entity_urn |-> URN_raw,
                                         timeseries_aspect_name |-> STR_datasetProfile,
                                         cached |-> cached],
                               response |-> response,
                               result |-> r.result]
                   /\ requests' = r.requests
                   /\ config_file' = sh.file
                   /\ UNCHANGED <<environ, config_override, last_override>>

GetAspectsForEntity ==
    /\ Idle
    /\ \E entity_urn \in {URN_raw, NOT_A_URN}, aspects \in AspectLists, typed \in BOOLEAN,
              cached \in CachedSessionHosts, entity_response \in EntityResponses :
             \E ts_response \in TimeseriesResponses,
                conv_fails \in (IF typed THEN {{}, {STR_ownership}, ASPECT_MAP} ELSE {{}}) :
               LET sh == session_and_host(cached, environ, config_file, config_override)
                   r == get_aspects_for_entity(sh, entity_urn, aspects, typed, entity_response,
                            [n \in TIMESERIES_ASPECT_MAP |-> ts_response], conv_fails)
               IN  /\ call' = [op |-> "get_aspects_for_entity",
                               pc |-> IF r.exc = "none" THEN "returned" ELSE "raised",
                               exc |-> r.exc,
                               args |-> [entity_urn |-> entity_urn, aspects |-> aspects,
                                         typed |-> typed, cached |-> cached],
                               entity_response |-> entity_response,
                               ts_response |-> ts_response,
                               conv_fails |-> conv_fails,
                               result |-> r.result]
                   /\ requests' = r.requests
                   /\ config_file' = sh.file
                   /\ UNCHANGED <<environ, config_override, last_override>>

\* parse_run_restli_response on a response that was received
ParseRunRestliResponse ==
    /\ Idle
    /\ \E response \in RunResponses(DeleteSummaries) \ {TransportError} :
        LET r == parse_run_restli_response(response)
        IN  call' = [op |-> "parse_run_restli_response",
                     pc |-> IF r.exc = "none" THEN "returned" ELSE "raised",
                     exc |-> r.exc,
                     response |-> response,
                     result |-> r.summary]
    /\ UNCHANGED <<environ, config_file, config_override, last_override, requests>>

PostRollbackEndpoint ==
    /\ Idle
    /\ \E run_id \in RunIds, response \in RunResponses(RollbackSummaries) :
        LET sh == get_session_and_host(environ, config_file, config_override)
            payload_obj == [runId |-> run_id, dryRun |-> FALSE]
            r == post_rollback_endpoint(sh, payload_obj, PATH_rollback, response)
        IN  /\ call' = [op |-> "post_rollback_endpoint",
                        pc |-> IF r.exc = "none" THEN "returned" ELSE "raised",
                        exc |-> r.exc,
                        args |-> [payload_obj |-> payload_obj, path |-> PATH_rollback],
                        response |-> response,
                        result |-> r.result,
                        warned |-> r.warned]
            /\ requests' = r.requests
            /\ config_file' = sh.file
            /\ UNCHANGED <<environ, config_override, last_override>>

PostDeleteReferencesEndpoint ==
    /\ Idle
    /\ \E cached \in CachedSessionHosts, response \in RunResponses(ReferencesSummaries) :
        LET sh == session_and_host(cached, environ, config_file, config_override)
            payload_obj == [urn |-> URN_raw, dryRun |-> FALSE]
            r == post_delete_references_endpoint(sh, payload_obj, PATH_delete_references,
                                                 response)
        IN  /\ call' = [op |-> "post_delete_references_endpoint",
                        pc |-> IF r.exc = "none" THEN "returned" ELSE "raised",
                        exc |-> r.exc,
                        args |-> [payload_obj |-> payload_obj,
                                  path |-> PATH_delete_references, cached |-> cached],
                        response |-> response,
                        result |-> r.result]
            /\ requests' = r.requests
            /\ config_file' = sh.file
            /\ UNCHANGED <<environ, config_override, last_override>>

PostDeleteEndpoint ==
    /\ Idle
    /\ \E cached \in CachedSessionHosts, response \in RunResponses(DeleteSummaries) :
        LET sh == session_and_host(cached, environ, config_file, config_override)
            payload_obj == [urn |-> URN_raw]
            r == post_delete_endpoint(sh, payload_obj, PATH_delete, response)
        IN  /\ call' = [op |-> "post_delete_endpoint",
                        pc |-> IF r.exc = "none" THEN "returned" ELSE "raised",
                        exc |-> r.exc,
                        args |-> [payload_obj |-> payload_obj, path |-> PATH_delete,
                                  cached |-> cached],
                        response |-> response,
                        result |-> r.result]
            /\ requests' = r.requests
            /\ config_file' = sh.file
            /\ UNCHANGED <<environ, config_override, last_override>>

BatchGetIds ==
    /\ Idle
    /\ \E ids \in IdLists :
        /\ call' = Generator("batch_get_ids", [ids |-> ids])
        /\ requests' = <<>>
        /\ UNCHANGED <<environ, config_file, config_override, last_override>>

BatchGetIdsNext ==
    /\ call.op = "batch_get_ids"
    /\ \/ /\ call.pc = "created"
          /\ \E response \in BatchResponses :
                LET sh == get_session_and_host(environ, config_file, config_override)
                    pre == batch_get_ids_request(sh, call.args.ids)
                IN  /\ call' = batch_get_ids_start(call, pre, response)
                    /\ requests' = pre.requests
                    /\ config_file' = sh.file
       \/ /\ call.pc = "suspended"
          /\ call' = batch_get_ids_loop(call)
          /\ UNCHANGED <<requests, config_file>>
    /\ UNCHANGED <<environ, config_override, last_override>>

\* get_relationships, also as reached through get_incoming_relationships
\* and get_outgoing_relationships, which fix the direction
GetRelationships ==
    /\ Idle
    /\ \E a \in GetRelationshipsArgs :
        /\ call' = Generator("get_relationships", a)
        /\ requests' = <<>>
        /\ UNCHANGED <<environ, config_file, config_override, last_override>>

GetRelationshipsNext ==
    /\ call.op = "get_relationships"
    /\ \/ /\ call.pc = "created"
          /\ \E response \in RelationshipResponses :
                LET sh == get_session_and_host(environ, config_file, config_override)
                    pre == get_relationships_request(sh, call.args)
                IN  /\ call' = get_relationships_start(call, pre, response)
                    /\ requests' = pre.requests
                    /\ config_file' = sh.file
       \/ /\ call.pc = "suspended"
          /\ call' = get_relationships_loop(call)
          /\ UNCHANGED <<requests, config_file>>
    /\ UNCHANGED <<environ, config_override, last_override>>

TestConnection ==
    /\ Idle
    /\ \E response \in PlainResponses :
        LET sh == get_session_and_host(environ, config_file, config_override)
            r == test_connection(sh, response)
        IN  /\ call' = [op |-> "test_connection",
                        pc |-> IF r.exc = "none" THEN "returned" ELSE "raised",
                        exc |-> r.exc, response |-> response]
            /\ requests' = r.requests
            /\ config_file' = sh.file
            /\ UNCHANGED <<environ, config_override, last_override>>

TestConnectivityComplainExit ==
    /\ Idle
    /\ \E response \in PlainResponses :
        LET sh == get_session_and_host(environ, config_file, config_override)
            r == test_connectivity_complain_exit(sh, response)
        IN  /\ call' = [op |-> "test_connectivity_complain_exit",
                        pc |-> IF r.exc = "none" THEN "returned" ELSE "raised",
                        exc |-> r.exc, response |-> response]
            /\ requests' = r.requests
            /\ config_file' = sh.file
            /\ UNCHANGED <<environ, config_override, last_override>>

PostEntity ==
    /\ Idle
    /\ \E cached \in CachedSessionHosts, response \in PlainResponses :
        LET sh == session_and_host(cached, environ, config_file, config_override)
            a == [urn |-> URN_raw, entity_type |-> <<"t","a","g">>,
                  aspect_name |-> STR_status, aspect_value |-> [removed |-> FALSE],
                  cached |-> cached, is_async |-> STR_false]
            r == post_entity(sh, a, response)
        IN  /\ call' = [op |-> "post_entity",
                        pc |-> IF r.exc = "none" THEN "returned" ELSE "raised",
                        exc |-> r.exc, args |-> a, response |-> response,
                        result |-> r.result]
            /\ requests' = r.requests
            /\ config_file' = sh.file
            /\ UNCHANGED <<environ, config_override, last_override>>

Next ==
    \/ GetSessionAndHost
    \/ BatchGetIds
    \/ BatchGetIdsNext
    \/ GetRelationships
    \/ GetRelationshipsNext
    \/ TestConnection
    \/ TestConnectivityComplainExit
    \/ PostEntity
    \/ ParseRunRestliResponse
    \/ PostRollbackEndpoint
    \/ PostDeleteReferencesEndpoint
    \/ PostDeleteEndpoint
    \/ GetEntity
    \/ GetLatestTimeseriesAspectValues
    \/ GetAspectsForEntity
    \/ GetUrnsByFilter
    \/ GetUrnsByFilterNext
    \/ GetContainerIdsByFilter
    \/ GetContainerIdsByFilterNext
    \/ Discard

Spec == Init /\ [][Next]_vars

-----------------------------------------------------------------------------
(* Properties of configuration resolution *)

NonBlank(x) == x # None /\ \E i \in 1..Len(x) : x[i] \notin Whitespace

SkipFlagSet ==
    /\ environ[ENV_SKIP_CONFIG] # None
    /\ lower(environ[ENV_SKIP_CONFIG]) \in {<<"t","r","u","e">>, <<"1">>}

ResolvedUrlAndToken == call.op = "get_url_and_token" /\ call.pc = "returned"

OverrideResult ==
    <<override_get(config_override, ENV_METADATA_HOST_URL),
      override_get(config_override, ENV_METADATA_TOKEN)>>

\* the field-by-field merge of the claim as written: environment when
\* non-blank, else the config-file value
MergeEnvElseFile(envValue, fileValue) ==
    IF NonBlank(envValue) THEN envValue ELSE fileValue

\* the merge the code performs: a blank config-file value resolves to None
MergeEnvElseNonBlankFile(envValue, fileValue) ==
    IF NonBlank(envValue) THEN envValue
    ELSE IF NonBlank(fileValue) THEN fileValue ELSE None

\* C1 as written: when get_url_and_token returns, the result is the override
\* map's (url, token) if the map is non-empty; else the environment-derived
\* pair if the skip-config flag is truthy; else, per field, the environment
\* value when non-blank and otherwise the config-file value.
C1_Original ==
    ResolvedUrlAndToken =>
        IF DOMAIN config_override # {} THEN call.result = OverrideResult
        ELSE IF SkipFlagSet THEN call.result = get_details_from_env(environ)
        ELSE /\ call.result[1] = MergeEnvElseFile(get_details_from_env(environ)[1],
                                                  config_file.server)
             /\ call.result[2] = MergeEnvElseFile(get_details_from_env(environ)[2],
                                                  config_file.token)

\* C1 amended: as C1, except that in the merge a config-file value that is
\* blank ("" or whitespace) resolves to None, not to the blank value.
C1_Precedence ==
    ResolvedUrlAndToken =>
        IF DOMAIN config_override # {} THEN call.result = OverrideResult
        ELSE IF SkipFlagSet THEN call.result = get_details_from_env(environ)
        ELSE /\ call.result[1] = MergeEnvElseNonBlankFile(
                                    get_details_from_env(environ)[1], config_file.server)
             /\ call.result[2] = MergeEnvElseNonBlankFile(
                                    get_details_from_env(environ)[2], config_file.token)

\* the merge happened with a blank environment token and a blank token in
\* an existing config file, next to a host taken from the environment
C1_Witness ==
    /\ ResolvedUrlAndToken
    /\ DOMAIN config_override = {}
    /\ ~SkipFlagSet
    /\ call.file_before.kind = "valid"
    /\ environ[ENV_METADATA_TOKEN] = Blank
    /\ config_file.token = EmptyStr
    /\ call.result = <<URL_env, None>>

\* C2: once set_env_variables_override_config has been called,
\* get_url_and_token returns exactly the (url, token) of the most recent
\* call, a most recent call without token resolving to no token.
C2_MostRecentOverrideWins ==
    (call.op = "get_url_and_token" /\ last_override # None) =>
        /\ call.pc = "returned"
        /\ call.result = last_override

\* C3 as written: with the port variable set the host returned by
\* get_details_from_env is "{protocol}://{host}:{port}" (protocol "http" when
\* unset); without it, the full-URL variable if set, else the legacy host.
C3_Synthesized ==
    LET host == environ[ENV_METADATA_HOST]
        port == environ[ENV_METADATA_PORT]
        protocol == environ[ENV_METADATA_PROTOCOL]
    IN  format_value(IF protocol = None THEN <<"h","t","t","p">> ELSE protocol)
        \o <<":","/","/">> \o format_value(host) \o <<":">> \o port

C3_Original ==
    call.op = "get_details_from_env" =>
        IF environ[ENV_METADATA_PORT] # None
        THEN call.result[1] = C3_Synthesized
        ELSE call.result[1] = IF environ[ENV_METADATA_HOST_URL] # None
                              THEN environ[ENV_METADATA_HOST_URL]
                              ELSE environ[ENV_METADATA_HOST]

\* C3 amended: without the port variable the host is the full-URL variable
\* if it is set and not the empty string, else the legacy host variable.
C3_EnvHost ==
    call.op = "get_details_from_env" =>
        IF environ[ENV_METADATA_PORT] # None
        THEN call.result[1] = C3_Synthesized
        ELSE call.result[1] = IF environ[ENV_METADATA_HOST_URL] \notin {None, EmptyStr}
                              THEN environ[ENV_METADATA_HOST_URL]
                              ELSE environ[ENV_METADATA_HOST]

\* port, protocol, host and full URL all set: the synthesized URL is returned
C3_Witness ==
    /\ call.op = "get_details_from_env"
    /\ environ[ENV_METADATA_PORT] = STR_80
    /\ environ[ENV_METADATA_HOST_URL] = URL_env
    /\ environ[ENV_METADATA_HOST] = STR_gms
    /\ environ[ENV_METADATA_PROTOCOL] = STR_https
    /\ call.result[1] = <<"h","t","t","p","s",":","/","/","g","m","s",":","8","0">>

-----------------------------------------------------------------------------
(* Properties of the search operations *)

\* a search request of get_urns_by_filter has been sent
SearchSent == call.op = "get_urns_by_filter" /\ Len(requests) = 1

\* the criteria of the single AND group of the filter that was sent
SentCriteria ==
    LET group == requests[1].payload.filter.or[1].and
    IN  {group[i] : i \in 1..Len(group)}

LowerIs(entity_type, names) == \E n \in names : lower(entity_type) = n

\* C4: the filter sent by get_urns_by_filter holds the criterion
\* {platform, "urn:li:dataPlatform:<platform>", EQUAL} exactly when a platform
\* is given and the lower-cased entity type is dataset, dataflow, datajob or
\* container, and the criterion {tool, <platform>} exactly when a platform is
\* given and the entity type is chart or dashboard; an absent platform never
\* produces a platform or tool criterion.
C4_PlatformCriterion ==
    SearchSent =>
        LET a == call.args
            wantsPlatform == a.platform # None /\ LowerIs(a.entity_type,
                                {STR_dataset, STR_dataflow, STR_datajob, STR_container})
            wantsTool == a.platform # None /\ LowerIs(a.entity_type,
                                {STR_chart, STR_dashboard})
        IN  /\ (\E c \in SentCriteria : c.field = "platform") <=> wantsPlatform
            /\ wantsPlatform =>
                  Criterion("platform", STR_platform_prefix \o a.platform) \in SentCriteria
            /\ (\E c \in SentCriteria : c.field = "tool") <=> wantsTool
            /\ wantsTool => Criterion("tool", a.platform) \in SentCriteria
            /\ a.platform = None =>
                  ~ \E c \in SentCriteria : c.field \in {"platform", "tool"}

\* C5: a search for entity type "container", in any letter case, never
\* holds an origin criterion; for every other entity type the origin
\* criterion {origin, env, EQUAL} is held exactly when env is non-empty.
C5_OriginCriterion ==
    SearchSent =>
        LET a == call.args
            wantsOrigin == /\ ~LowerIs(a.entity_type, {STR_container})
                           /\ a.env # None
                           /\ Len(a.env) > 0
        IN  /\ (\E c \in SentCriteria : c.field = "origin") <=> wantsOrigin
            /\ wantsOrigin => Criterion("origin", a.env) \in SentCriteria

\* a search for "CONTAINER" with env PROD was sent without origin criterion
C5_Witness ==
    /\ SearchSent
    /\ call.args.entity_type = <<"C","O","N","T","A","I","N","E","R">>
    /\ call.args.env = STR_PROD
    /\ ~ \E c \in SentCriteria : c.field = "origin"

IsSearch == call.op \in {"get_urns_by_filter", "get_container_ids_by_filter"}

\* the generator received a 200 response with a body
Got200 ==
    /\ call.pc # "created"
    /\ call.response.kind = "http"
    /\ call.response.status = HTTP_OK
    /\ call.response.content

Listed ==
    LET entities == call.response.json.value.entities
    IN  [i \in 1..Len(entities) |-> entities[i].entity]

Reported == call.response.json.value.numEntities

\* C6: on a 200 search response, both generators yield the listed entities
\* in order; the counts are compared only once all of them have been
\* yielded; on a mismatch get_urns_by_filter ends normally with one warning
\* and get_container_ids_by_filter raises AssertionError; when the counts
\* agree both end normally without warning.
C6_CountCheck ==
    (IsSearch /\ Got200) =>
        /\ call.yielded = SubSeq(Listed, 1, call.entities_yielded)
        /\ call.pc = "suspended" => (call.warnings = 0 /\ call.entities_yielded > 0)
        /\ call.pc \in {"done", "raised"} => call.yielded = Listed
        /\ call.op = "get_urns_by_filter" =>
              /\ call.pc # "raised"
              /\ call.pc = "done" =>
                    call.warnings = (IF Len(Listed) # Reported THEN 1 ELSE 0)
        /\ call.op = "get_container_ids_by_filter" =>
              /\ call.pc = "done" => Len(Listed) = Reported
              /\ call.pc = "raised" =>
                    (call.exc = "AssertionError" /\ Len(Listed) # Reported)

\* get_container_ids_by_filter failed its assertion after yielding the two
\* entities of a response that reported one
C6_Witness ==
    /\ call.op = "get_container_ids_by_filter"
    /\ Got200
    /\ call.pc = "raised"
    /\ call.exc = "AssertionError"
    /\ Len(call.yielded) = 2
    /\ Reported = 1

-----------------------------------------------------------------------------
(* Properties of get_entity and get_aspects_for_entity *)

\* the urn as it appears in the path of the request that was sent: what
\* follows "<host>/entitiesV2/" up to the query string
SentUrn ==
    LET url == requests[1].url
        from == Len(requests[1].host) + Len(ENDPOINT_entitiesV2) + 2
        rest == SubSeq(url, from, Len(url))
        stops == {i \in 1..Len(rest) : rest[i] = "?"}
    IN  IF stops = {} THEN rest
        ELSE SubSeq(rest, 1, (CHOOSE i \in stops : \A j \in stops : i <= j) - 1)

\* C7: get_entity percent-encodes a urn that starts with "urn:" before it
\* places it in the /entitiesV2/{urn} path, places a urn that starts with
\* "urn%3A" in the path unchanged, and raises before any request for a urn
\* with neither prefix.
C7_UrnClassification ==
    call.op = "get_entity" =>
        LET urn == call.args.urn
            raw == startswith(urn, STR_urn_raw)
            encoded == startswith(urn, STR_urn_encoded)
        IN  /\ Len(requests) <= 1
            /\ (Len(requests) = 1 /\ raw) =>
                  /\ SentUrn = url_encode(urn)
                  /\ \A i \in 1..Len(SentUrn) : SentUrn[i] # ":"
            /\ (Len(requests) = 1 /\ encoded) =>
                  /\ SentUrn = urn
                  /\ SentUrn # url_encode(urn)
            /\ (~raw /\ ~encoded) =>
                  /\ call.pc = "raised"
                  /\ call.exc = "Exception"
                  /\ requests = <<>>

\* an already encoded urn was sent as given
C7_Witness ==
    /\ call.op = "get_entity"
    /\ call.args.urn = <<"u","r","n","%","3","A","l","i","%","3","A","t","a","g","%","3","A","1">>
    /\ Len(requests) = 1
    /\ SentUrn = call.args.urn
    /\ call.pc = "returned"

\* get_aspects_for_entity was called with one synchronous and one
\* timeseries aspect name
OneSyncOneTimeseries ==
    /\ call.op = "get_aspects_for_entity"
    /\ call.args.aspects = <<STR_ownership, STR_datasetProfile>>

\* the entity fetch succeeded
EntityFetched ==
    /\ Len(requests) >= 1
    /\ call.entity_response.kind = "http"
    /\ call.entity_response.status = HTTP_OK
    /\ call.entity_response.content

\* the timeseries request was sent and failed: transport error or error status
TimeseriesFailed ==
    /\ Len(requests) = 2
    /\ \/ call.ts_response.kind = "error"
       \/ call.ts_response.status >= 400

\* the timeseries request was sent and answered with a well-formed value
TimeseriesFetched ==
    /\ Len(requests) = 2
    /\ call.ts_response.kind = "http"
    /\ call.ts_response.status = HTTP_OK
    /\ "value" \in DOMAIN call.ts_response.json
    /\ Len(call.ts_response.json.value.values) > 0
    /\ call.ts_response.json.value.values[1].aspect.value.wellformed

\* the entity response holds the synchronous aspect and, in a typed call,
\* its conversion succeeds
SyncAvailable ==
    /\ STR_ownership \in DOMAIN call.entity_response.json.aspects
    /\ call.args.typed => STR_ownership \notin call.conv_fails

Stored(v) == IF call.args.typed THEN [typed |-> v] ELSE v

\* C8: with one synchronous and one timeseries aspect name, a failed
\* timeseries request never reaches the caller: the call returns, the
\* timeseries aspect is absent and the synchronous aspect is present with
\* the value the entity response held; when both fetches succeed the
\* result holds both aspects.
C8_TimeseriesFailureSwallowed ==
    (OneSyncOneTimeseries /\ EntityFetched) =>
        /\ TimeseriesFailed =>
              /\ call.pc = "returned"
              /\ call.exc = "none"
              /\ STR_datasetProfile \notin DOMAIN call.result
              /\ STR_ownership \in DOMAIN call.result <=> SyncAvailable
              /\ SyncAvailable =>
                    call.result[STR_ownership] =
                        Stored([aspect |-> STR_ownership, origin |-> "entity"])
        /\ (TimeseriesFetched /\ SyncAvailable
              /\ (call.args.typed => STR_datasetProfile \notin call.conv_fails)) =>
              /\ call.pc = "returned"
              /\ DOMAIN call.result = {STR_ownership, STR_datasetProfile}
              /\ call.result[STR_ownership] =
                    Stored([aspect |-> STR_ownership, origin |-> "entity"])
              /\ call.result[STR_datasetProfile] =
                    Stored([aspect |-> STR_datasetProfile, origin |-> "timeseries"])

\* the timeseries request met a transport error and the call returned the
\* synchronous aspect alone
C8_Witness ==
    /\ OneSyncOneTimeseries
    /\ EntityFetched
    /\ TimeseriesFailed
    /\ call.ts_response.kind = "error"
    /\ call.pc = "returned"
    /\ DOMAIN call.result = {STR_ownership}

-----------------------------------------------------------------------------
(* Properties of post_rollback_endpoint *)

\* the rows the server returned for the rollback that has returned
ReturnedRows ==
    dict_get(call.response.json.d["value"].d, "aspectRowSummaries", <<>>)

\* the positions of the returned rows that belong to the run asked for
MatchingPositions ==
    {i \in 1..Len(ReturnedRows) : ReturnedRows[i].runId = call.args.payload_obj.runId}

\* the k-th of them in the order of the response
MatchingPosition(k) ==
    CHOOSE i \in MatchingPositions : Cardinality({j \in MatchingPositions : j <= i}) = k

\* C9: the rows post_rollback_endpoint reports are exactly the returned
\* rows whose runId is the runId of the request, in the order of the
\* response, each as [urn, aspectName, time].
C9_RollbackRows ==
    (call.op = "post_rollback_endpoint" /\ call.pc = "returned") =>
        /\ Len(call.result[1]) = Cardinality(MatchingPositions)
        /\ \A k \in 1..Len(call.result[1]) :
              LET row == ReturnedRows[MatchingPosition(k)]
              IN  call.result[1][k] =
                      <<row.urn, row.aspectName,
                        [seconds |-> (row.timestamp - (row.timestamp % 1000)) \div 1000]>>

\* three rows came back, the middle one of another run: the first and the
\* third are reported
C9_Witness ==
    /\ call.op = "post_rollback_endpoint"
    /\ call.pc = "returned"
    /\ Len(ReturnedRows) = 3
    /\ MatchingPositions = {1, 3}
    /\ Len(call.result[1]) = 2
    /\ call.result[1][2][1] = ReturnedRows[3].urn

-----------------------------------------------------------------------------
(* Properties of the session sentinel *)

\* the host get_url_and_token resolves in the current configuration
ResolvedHost == get_url_and_token(environ, config_file, config_override).host

HostMissing == ~NonBlank(ResolvedHost)

\* the operations that take a cached (session, host) pair
TakesCachedSessionHost ==
    call.op \in {"get_entity", "get_latest_timeseries_aspect_values",
                 "get_aspects_for_entity", "post_delete_references_endpoint",
                 "post_delete_endpoint", "post_entity"}

\* the running operation got its session from get_session_and_host
SessionFromGetSessionAndHost ==
    /\ call.op \notin {"none", "get_session_and_host"}
    /\ TakesCachedSessionHost => call.args.cached = None

\* C10: get_session_and_host returns (None, None), without raising, exactly
\* when the resolved host is absent or blank, and otherwise the resolved
\* host with a session; an operation that gets its session from
\* get_session_and_host sends no request when the host is absent or blank,
\* and every request it sends goes to the resolved, non-blank host.
C10_NoRequestWithoutHost ==
    /\ call.op = "get_session_and_host" =>
          /\ call.pc = "returned"
          /\ (call.result[1] = None /\ call.result[2] = None) <=> HostMissing
          /\ ~HostMissing => (call.result[1] # None /\ call.result[2] = ResolvedHost)
    /\ SessionFromGetSessionAndHost =>
          /\ HostMissing => requests = <<>>
          /\ \A i \in 1..Len(requests) :
                /\ NonBlank(requests[i].host)
                /\ requests[i].host = ResolvedHost
                /\ startswith(requests[i].url, ResolvedHost)
                /\ requests[i].session # None

\* with a blank URL in the environment get_relationships formatted its
\* endpoint and failed on the missing session before any request
C10_Witness ==
    /\ call.op = "get_relationships"
    /\ environ[ENV_METADATA_HOST_URL] = Blank
    /\ HostMissing
    /\ call.pc = "raised"
    /\ call.exc = "AttributeError"
    /\ requests = <<>>

-----------------------------------------------------------------------------
(* C11: the shape of a run response *)

\* the response is a 200 whose body is an object with an object under "value"
WellShaped(response) ==
    /\ response.kind = "http"
    /\ response.content
    /\ response.status = HTTP_OK
    /\ response.json.isdict
    /\ "value" \in DOMAIN response.json.d
    /\ response.json.d["value"].isdict

\* the "value" entry of a well-shaped response
ValueEntry(response) == response.json.d["value"].d

RunHelpers ==
    {"post_rollback_endpoint", "post_delete_references_endpoint", "post_delete_endpoint"}

\* the call is one of the three helpers and its request was sent
HelperAnswered == call.op \in RunHelpers /\ requests # <<>>

Terminations == {"SystemExit", "HTTPError", "JSONDecodeError", "ConnectionError"}

\* C11: parse_run_restli_response returns exactly on a 200 response whose
\* body is a mapping with a mapping under "value", and what it returns is
\* that entry; on every other response it terminates (exit() or an
\* exception) and the delete, delete-references or rollback helper that
\* called it produces no result.
C11_ResponseShape ==
    /\ call.op = "parse_run_restli_response" =>
          /\ (call.pc = "returned") <=> WellShaped(call.response)
          /\ call.pc = "returned" => call.result = ValueEntry(call.response)
          /\ call.pc # "returned" => call.pc = "raised" /\ call.exc \in Terminations
    /\ HelperAnswered =>
          /\ (call.pc = "returned") <=> WellShaped(call.response)
          /\ call.pc # "returned" =>
                call.pc = "raised" /\ call.exc \in Terminations /\ call.result = <<>>
          /\ call.pc = "returned" /\ call.op = "post_delete_endpoint" =>
                call.result[2] = dict_get(ValueEntry(call.response), "rows", 0)
          /\ call.pc = "returned" /\ call.op = "post_delete_references_endpoint" =>
                call.result[1] = dict_get(ValueEntry(call.response), "total", 0)

\* a helper received a non-200 response whose body has a mapping under
\* "value" and was terminated by exit()
C11_Witness ==
    /\ call.op = "post_delete_endpoint"
    /\ requests # <<>>
    /\ call.response.kind = "http"
    /\ call.response.status # HTTP_OK
    /\ call.response.content
    /\ call.response.json.isdict
    /\ "value" \in DOMAIN call.response.json.d
    /\ call.pc = "raised"
    /\ call.exc = "SystemExit"

-----------------------------------------------------------------------------
(* C12: when the lazy query operations send their request *)

LazyOps == {"get_urns_by_filter", "get_container_ids_by_filter", "batch_get_ids",
            "get_relationships"}

\* the call has returned its sequence and nothing has been raised since:
\* no element, some elements or all elements have been consumed
SequenceReturned == call.op \in LazyOps /\ call.pc \in {"created", "suspended", "done"}

\* C12: once a call to a lazy query operation has returned its sequence,
\* exactly one request has been sent, whether the caller has consumed all,
\* some or none of the elements.
C12_EagerRequest == SequenceReturned => Len(requests) = 1

-----------------------------------------------------------------------------
(* C13: the consistency assertion of batch_get_ids *)

\* batch_get_ids received a 200 response
BatchGot200 ==
    /\ call.op = "batch_get_ids"
    /\ call.pc # "created"
    /\ call.response.kind = "http"
    /\ call.response.status = HTTP_OK

\* the body of the response is a JSON object with a results mapping
HasResults == call.response.content /\ "results" \in DOMAIN call.response.json

\* the values of the results mapping
ResultValues ==
    LET results == call.response.json.results
    IN  [i \in 1..Len(results) |-> results[i].value]

\* the claim as given: after every 200 response batch_get_ids yields one
\* record per entry of the results mapping and completes normally
C13_Original ==
    BatchGot200 =>
        /\ call.pc # "raised"
        /\ call.pc = "done" => call.yielded = ResultValues

\* C13: for every 200 response whose body is a JSON object with a results
\* mapping, batch_get_ids yields exactly one record per entry of the mapping
\* and then completes normally: its consistency assertion never raises.  A
\* 200 response without such a body ends the generator, before any yield,
\* with the AssertionError of `assert response._content` (empty body) or
\* with the error of json.loads or of results["results"].
C13_BatchCount ==
    BatchGot200 =>
        /\ HasResults =>
              /\ call.pc \in {"suspended", "done"}
              /\ call.yielded = SubSeq(ResultValues, 1, call.entities_yielded)
              /\ call.pc = "suspended" => call.entities_yielded > 0
              /\ call.pc = "done" =>
                    (call.yielded = ResultValues
                     /\ call.entities_yielded = Len(call.response.json.results))
        /\ ~HasResults =>
              /\ call.pc = "raised"
              /\ call.yielded = <<>>
              /\ call.exc \in {"AssertionError", "JSONDecodeError", "KeyError"}
              /\ call.exc = "AssertionError" <=> ~call.response.content

\* batch_get_ids completed normally after yielding the two records of a
\* response to a request that asked for another number of ids
C13_Witness ==
    /\ BatchGot200
    /\ HasResults
    /\ call.pc = "done"
    /\ Len(call.yielded) = 2
    /\ Len(call.args.ids) # 2

====
